---- MODULE Spec2Model ----
(***************************************************************************)
(* A model of the fixture loader of testfixtures.go: Context.Load, the     *)
(* steps of fixtureFile.delete / insert / buildInsertSQL, and the Helper   *)
(* (dialect) operations Load calls.  The database is modelled as tables of *)
(* rows with a primary key "id" and one sequence per table.                *)
(***************************************************************************)
EXTENDS Integers, Sequences, FiniteSets, TLC

VARIABLES
    fixturesFiles,          \* Context.fixturesFiles: sequence of fixtureFile
    skipDatabaseNameCheck,  \* the process-wide toggle read by Load
    dbName,                 \* what helper.databaseName(db) returns
    paramType,              \* what helper.paramType() returns
    db,                     \* committed table contents: table -> set of rows
    seq,                    \* committed sequences: table -> next identifier
    txOpen,                 \* a transaction of Load is in flight
    txDb,                   \* table contents as seen inside the transaction
    txSeq,                  \* sequences as seen inside the transaction
    integrity,              \* "enforced" or "suspended"
    pc,                     \* position of the running Load
    idx,                    \* index of the fixture file of the loop of Load
    pending,                \* records insert() has still to iterate
    hook,                   \* table whose whileInsertOnTable is active, or None
    bodyErr,                \* error returned by the body given to the helper
    result,                 \* what the last Load returned
    calls,                  \* number of Load calls made
    log,                    \* statements executed by the current Load
    db0,                    \* history: committed contents when Load was called
    files0,                 \* history: fixturesFiles when Load was called
    first,                  \* history: result and contents after the first Load
    stats,                  \* history: begins, commits, rollbacks of this Load
    inserted,               \* history: ordinary INSERTs made after a Load
    fname,                  \* a file name given to fileNameWithoutExtension
    tname,                  \* the table name it returned
    crecord,                \* a record given to buildInsertSQL
    corder,                 \* the order in which range yields its pairs
    compiled                \* what buildInsertSQL returned for it

vars == <<fixturesFiles, skipDatabaseNameCheck, dbName, paramType, db, seq,
          txOpen, txDb, txSeq, integrity, pc, idx, pending, hook, bodyErr,
          result, calls, log, db0, files0, first, stats, inserted, fname, tname,
          crecord, corder, compiled>>

None == "none"

----------------------------------------------------------------------------
(* Bounds *)

MaxRecords == 2
MaxLoads == 2
MaxInserts == 1
MaxNameLen == 5
MaxDbNameLen == 4

----------------------------------------------------------------------------
(* Strings are sequences of one-character strings. *)

SeqsUpTo(S, n) == UNION {[1..k -> S] : k \in 0..n}

IsPrefixAt(s, sub, i) ==
    /\ i + Len(sub) - 1 <= Len(s)
    /\ \A j \in 1..Len(sub) : s[i + j - 1] = sub[j]

\* strings.Index: 0 when sub does not occur
IndexOf(s, sub) ==
    LET hits == {i \in 1..(Len(s) + 1) : IsPrefixAt(s, sub, i)}
    IN IF hits = {} THEN 0 ELSE CHOOSE i \in hits : \A j \in hits : i <= j

\* strings.Replace(s, old, "", 1)
ReplaceFirstWithEmpty(s, old) ==
    LET i == IndexOf(s, old)
    IN IF i = 0 \/ old = <<>> THEN s
       ELSE SubSeq(s, 1, i - 1) \o SubSeq(s, i + Len(old), Len(s))

\* filepath.Ext: the suffix beginning at the final dot of the last element
Ext(path) ==
    LET dots == {i \in 1..Len(path) :
                    /\ path[i] = "."
                    /\ \A j \in i..Len(path) : path[j] # "/"}
    IN IF dots = {} THEN <<>>
       ELSE SubSeq(path, CHOOSE i \in dots : \A j \in dots : j <= i, Len(path))

fileNameWithoutExtension(fileName) == ReplaceFirstWithEmpty(fileName, Ext(fileName))

----------------------------------------------------------------------------
(* The safety guard: dbnameRegexp.MatchString, a case-insensitive search   *)
(* for the letters t-e-s-t.                                                *)

Upper == <<"A","B","C","D","E","F","G","H","I","J","K","L","M",
           "N","O","P","Q","R","S","T","U","V","W","X","Y","Z">>
Lower == <<"a","b","c","d","e","f","g","h","i","j","k","l","m",
           "n","o","p","q","r","s","t","u","v","w","x","y","z">>

\* the cyrillic capital letter Te, which looks like the latin T
CyrTe == "cyrillic-Te"

ToLower(c) ==
    IF \E i \in 1..Len(Upper) : Upper[i] = c
    THEN Lower[CHOOSE i \in 1..Len(Upper) : Upper[i] = c]
    ELSE c

TestWord == <<"t", "e", "s", "t">>

MatchesAt(name, i) ==
    /\ i + Len(TestWord) - 1 <= Len(name)
    /\ \A j \in 1..Len(TestWord) : ToLower(name[i + j - 1]) = TestWord[j]

dbnameRegexp_MatchString(name) == \E i \in 1..Len(name) : MatchesAt(name, i)

----------------------------------------------------------------------------
(* Fixture content as yaml.Unmarshal delivers it.                          *)

IntVal(n) == [t |-> "int", n |-> n]

\* one key/value pair of a record; str is the outcome of key.(string)
Entry(k, v) == [key |-> k, str |-> TRUE, val |-> v]
IntKeyEntry(k, v) == [key |-> k, str |-> FALSE, val |-> v]

MapRecord(kv) == [kind |-> "map", kv |-> kv]
ScalarRecord == [kind |-> "scalar", kv |-> <<>>]

m1 == MapRecord(<<Entry("id", IntVal(1)), Entry("title", IntVal(2))>>)
m2 == MapRecord(<<Entry("id", IntVal(2))>>)
badKey == MapRecord(<<Entry("id", IntVal(1)), IntKeyEntry("7", IntVal(2))>>)

ValidRecords == {m1, m2}
InvalidRecords == {badKey, ScalarRecord}
Records == ValidRecords \cup InvalidRecords

\* top level of a file: a sequence, a mapping (items in file order), a plain
\* scalar, nothing at all (empty or null), or text that is not YAML
Content(kind, items) == [kind |-> kind, items |-> items]
Contents ==
    {Content(k, items) : k \in {"slice", "map"}, items \in SeqsUpTo(Records, MaxRecords)}
    \cup {Content(k, <<>>) : k \in {"scalar", "nil", "invalid"}}

\* the file names of the fixture sets: p.y and t.y
FileNames == {<<"p", ".", "y">>, <<"t", ".", "y">>}

\* a fixtureFile as Load reads it (Load never reads its path)
FixtureFile(fileName, content) == [fileName |-> fileName, content |-> content]

TableOf(file) == fileNameWithoutExtension(file.fileName)

Tables == {fileNameWithoutExtension(n) : n \in FileNames}

----------------------------------------------------------------------------
(* The database the statements run against.                                *)

OldRow == [c \in {"id", "title"} |-> IF c = "id" THEN IntVal(2) ELSE IntVal(9)]

Ids(rows) == {r["id"].n : r \in rows}

MaxOf(S) == IF S = {} THEN 0 ELSE CHOOSE m \in S : \A x \in S : x <= m

\* INSERT of one row: without an "id" the table's sequence assigns it; a row
\* whose id is already in the table violates the primary key
DbInsert(tables, seqs, t, row) ==
    LET assigned == "id" \notin DOMAIN row
        full == IF assigned
                THEN [c \in DOMAIN row \cup {"id"} |->
                        IF c = "id" THEN IntVal(seqs[t]) ELSE row[c]]
                ELSE row
        clash == full["id"].n \in Ids(tables[t])
    IN [ok |-> ~clash,
        tables |-> IF clash THEN tables ELSE [tables EXCEPT ![t] = @ \cup {full}],
        seqs |-> IF assigned THEN [seqs EXCEPT ![t] = @ + 1] ELSE seqs]


----------------------------------------------------------------------------
(* fixtureFile.buildInsertSQL.  order is the order in which range yields   *)
(* the pairs of the record; the statement is kept as its parts.            *)

Perms(n) == {f \in [1..n -> 1..n] : \A i, j \in 1..n : f[i] = f[j] => i = j}

ParamTypes == {"dollar", "question", "colon"}

isDateTime(v) == v.t = "datetime"
isDate(v) == v.t = "date"
isTime(v) == v.t = "time"

\* the mutant numbers the placeholders from zero
Placeholder_fromZero(pt, i, v) ==
    CASE pt = "dollar" -> [mark |-> "$", ord |-> i - 1, cast |-> None]
      [] pt = "question" -> [mark |-> "?", ord |-> 0, cast |-> None]
      [] OTHER ->
           [mark |-> ":", ord |-> i - 1,
            cast |-> IF isDateTime(v) THEN "YYYY-MM-DD HH24:MI:SS"
                     ELSE IF isDate(v) THEN "YYYY-MM-DD"
                     ELSE IF isTime(v) THEN "HH24:MI:SS"
                     ELSE None]

\* the placeholder of the i-th pair: "$i", the bare "?" or ":i", the last
\* inside a to_date cast where the value is a date, a time or both
Placeholder(pt, i, v) ==
    CASE pt = "dollar" -> [mark |-> "$", ord |-> i, cast |-> None]
      [] pt = "question" -> [mark |-> "?", ord |-> 0, cast |-> None]
      [] OTHER ->
           [mark |-> ":", ord |-> i,
            cast |-> IF isDateTime(v) THEN "YYYY-MM-DD HH24:MI:SS"
                     ELSE IF isDate(v) THEN "YYYY-MM-DD"
                     ELSE IF isTime(v) THEN "HH24:MI:SS"
                     ELSE None]

\* the mutant takes every key for a string
RECURSIVE BuildFrom_anyKey(_, _, _, _, _)
BuildFrom_anyKey(pt, kv, order, k, acc) ==
    IF k > Len(order) THEN acc
    ELSE LET e == kv[order[k]]
         IN BuildFrom_anyKey(pt, kv, order, k + 1,
                [acc EXCEPT !.columns = Append(@, e.key),
                            !.placeholders = Append(@, Placeholder(pt, acc.i, e.val)),
                            !.i = @ + 1,
                            !.values = Append(@, e.val)])

RECURSIVE BuildFrom(_, _, _, _, _)
BuildFrom(pt, kv, order, k, acc) ==
    IF k > Len(order) THEN acc
    ELSE LET e == kv[order[k]]
         IN IF ~e.str
            THEN [acc EXCEPT !.err = "ErrKeyIsNotString"]
            ELSE BuildFrom(pt, kv, order, k + 1,
                    [acc EXCEPT !.columns = Append(@, e.key),
                                !.placeholders = Append(@, Placeholder(pt, acc.i, e.val)),
                                !.i = @ + 1,
                                !.values = Append(@, e.val)])

buildInsertSQL(pt, table, record, order) ==
    LET r == BuildFrom(pt, record.kv, order, 1,
                 [err |-> "nil", columns |-> <<>>, placeholders |-> <<>>,
                  i |-> 1, values |-> <<>>])
    IN [err |-> r.err, table |-> table, columns |-> r.columns,
        placeholders |-> r.placeholders, values |-> r.values]

\* the row an INSERT statement and its bound values denote: the i-th bound
\* value goes to the i-th listed column
RowOf(stmt) ==
    [c \in {stmt.columns[i] : i \in 1..Len(stmt.columns)} |->
        stmt.values[CHOOSE i \in 1..Len(stmt.columns) : stmt.columns[i] = c]]


----------------------------------------------------------------------------
(* The states Load starts in.                                              *)

RECURSIVE TotalRecords(_)
TotalRecords(files) ==
    IF files = <<>> THEN 0
    ELSE Len(Head(files).content.items) + TotalRecords(Tail(files))

\* a set holds up to as many files as there are file names, in any order;
\* the same name may occur twice (two directories)
MaxFiles == Cardinality(FileNames)

\* fixture sets of at most MaxFiles files holding at most MaxRecords records
FixtureSets ==
    {files \in SeqsUpTo({FixtureFile(n, c) : n \in FileNames, c \in Contents},
                        MaxFiles) : TotalRecords(files) <= MaxRecords}

TestDbName == <<"t", "e", "s", "t">>
ProdDbName == <<"p", "r", "o", "d">>

\* the tables are empty, or hold one row each left by earlier use; the
\* sequence of a table is past the identifiers in it
InitialDbs == {[t \in Tables |-> rows] : rows \in {{}, {OldRow}}}
SeqFor(tables) == [t \in DOMAIN tables |-> MaxOf(Ids(tables[t])) + 1]

NoStats == [begins |-> 0, commits |-> 0, rollbacks |-> 0]

InitIdle ==
    /\ skipDatabaseNameCheck = FALSE
    /\ seq = SeqFor(db)
    /\ txOpen = FALSE
    /\ txDb = db
    /\ txSeq = seq
    /\ integrity = "enforced"
    /\ pc = "idle"
    /\ idx = 0
    /\ pending = <<>>
    /\ hook = None
    /\ bodyErr = "nil"
    /\ result = None
    /\ calls = 0
    /\ log = <<>>
    /\ db0 = db
    /\ files0 = fixturesFiles
    /\ first = None
    /\ stats = NoStats
    /\ inserted = <<>>
    /\ tname = <<>>
    /\ compiled = None

Init ==
    /\ fixturesFiles \in FixtureSets
    /\ dbName \in {TestDbName, ProdDbName}
    /\ db \in InitialDbs
    /\ fname = <<>>
    /\ paramType = "dollar"
    /\ crecord = None
    /\ corder = <<>>
    /\ InitIdle

----------------------------------------------------------------------------
(* Context.Load, step by step.                                             *)

dbVars == <<db, seq>>
txVars == <<txOpen, txDb, txSeq>>
cfgVars == <<fixturesFiles, skipDatabaseNameCheck, dbName, paramType>>
nameVars == <<fname, tname>>
compileVars == <<crecord, corder, compiled>>

\* Load returns r: the caller sees the committed tables
Returned(r, n, tables) ==
    /\ pc' = "returned"
    /\ result' = r
    /\ first' = IF n = 1 THEN [ok |-> r = "nil", db |-> tables] ELSE first

\* the mutant refuses a fixture whose table an earlier fixture has named
LoopAt_uniqueTables(i) ==
    IF i > Len(fixturesFiles)
    THEN /\ pc' = "restore"
         /\ idx' = i
         /\ bodyErr' = "nil"
    ELSE IF \E j \in 1..(i - 1) :
               fileNameWithoutExtension(fixturesFiles[j].fileName)
                  = fileNameWithoutExtension(fixturesFiles[i].fileName)
    THEN /\ pc' = "restore"
         /\ idx' = i
         /\ bodyErr' = "errDuplicateTable"
    ELSE /\ pc' = "delete"
         /\ idx' = i
         /\ bodyErr' = bodyErr

\* the mutant goes to the insert step of a fixture without its DELETE
LoopAt_noDelete(i) ==
    IF i > Len(fixturesFiles)
    THEN /\ pc' = "restore"
         /\ idx' = i
         /\ bodyErr' = "nil"
    ELSE /\ pc' = "hook"
         /\ idx' = i
         /\ bodyErr' = bodyErr

\* the head of the loop over c.fixturesFiles, entered with index i
LoopAt(i) ==
    IF i > Len(fixturesFiles)
    THEN /\ pc' = "restore"
         /\ idx' = i
         /\ bodyErr' = "nil"
    ELSE /\ pc' = "delete"
         /\ idx' = i
         /\ bodyErr' = bodyErr

\* the mutant drops the error of the body
BodyFails_swallowed(err) ==
    /\ pc' = "restore"
    /\ bodyErr' = "nil"

\* the body returns err to the helper
BodyFails(err) ==
    /\ pc' = "restore"
    /\ bodyErr' = err

\* the mutant refuses no database
databaseNameRefused_never == FALSE

\* the mutant refuses the databases whose name matches
databaseNameRefused_inverted ==
    ~skipDatabaseNameCheck /\ dbnameRegexp_MatchString(dbName)

\* the mutant checks the name whatever the toggle says
databaseNameRefused_always == ~dbnameRegexp_MatchString(dbName)

\* Load, lines 48-49: the check is enabled and the name does not match
databaseNameRefused ==
    ~skipDatabaseNameCheck /\ ~dbnameRegexp_MatchString(dbName)

\* the mutant runs the loop itself instead of handing it to the helper
callsHelper_direct == LoopAt(1)

\* Load, line 54: the loop is the body given to disableReferentialIntegrity
callsHelper ==
    /\ pc' = "begin"
    /\ idx' = 0
    /\ bodyErr' = "nil"

\* Load, lines 47-54: the database-name check, then the call of the helper
Load ==
    /\ pc \in {"idle", "returned"}
    /\ calls < MaxLoads
    /\ inserted = <<>>
    /\ calls' = calls + 1
    /\ db0' = db
    /\ files0' = fixturesFiles
    /\ log' = <<>>
    /\ stats' = NoStats
    /\ inserted' = <<>>
    /\ pending' = <<>>
    /\ hook' = None
    /\ IF databaseNameRefused
       THEN /\ Returned("errNotTestDatabase", calls + 1, db)
            /\ idx' = 0
            /\ bodyErr' = "nil"
       ELSE /\ callsHelper
            /\ result' = None
            /\ first' = first
    /\ UNCHANGED <<cfgVars, dbVars, txVars, integrity, nameVars,
                   compileVars>>

\* helper.disableReferentialIntegrity, before it calls the body: one
\* transaction is begun and enforcement is suspended
disableReferentialIntegrity_begin ==
    /\ pc = "begin"
    /\ txOpen' = TRUE
    /\ txDb' = db
    /\ txSeq' = seq
    /\ integrity' = "suspended"
    /\ stats' = [stats EXCEPT !.begins = @ + 1]
    /\ LoopAt(1)
    /\ UNCHANGED <<cfgVars, dbVars, pending, hook, result, calls, log, db0, files0,
                   first, inserted, nameVars,
                   compileVars>>

\* the mutant leaves the rows of the table in place
delete_nothing(tables, t) == tables

\* the effect of DELETE FROM t
delete_rows(tables, t) == [tables EXCEPT ![t] = {}]

\* the mutant runs the statement on the connection, outside the transaction
db_Exec_delete(t) ==
    /\ txDb' = delete_rows(txDb, t)
    /\ db' = delete_rows(db, t)
    /\ seq' = seq

\* tx.Exec of the DELETE: it acts inside the transaction
tx_Exec_delete(t) ==
    /\ txDb' = delete_rows(txDb, t)
    /\ UNCHANGED dbVars

\* fixtureFile.delete and lines 56-59 of Load; tx.Exec may fail
delete ==
    /\ pc = "delete"
    /\ LET t == TableOf(fixturesFiles[idx])
       IN \E ok \in BOOLEAN :
            /\ log' = Append(log, [op |-> "DELETE", table |-> t, file |-> idx,
                                  hook |-> hook, ok |-> ok])
            /\ IF ok
               THEN /\ tx_Exec_delete(t)
                    /\ pc' = "hook"
                    /\ bodyErr' = bodyErr
               ELSE /\ txDb' = txDb
                    /\ UNCHANGED dbVars
                    /\ BodyFails("errDelete")
    /\ UNCHANGED <<cfgVars, txOpen, txSeq, integrity, idx, pending, hook,
                   result, calls, db0, files0, first, stats, inserted, nameVars,
                   compileVars>>

\* Load, line 61, and helper.whileInsertOnTable before it calls its body
whileInsertOnTable_enter ==
    /\ pc = "hook"
    /\ hook' = TableOf(fixturesFiles[idx])
    /\ pc' = "parse"
    /\ UNCHANGED <<cfgVars, dbVars, txVars, integrity, idx, pending, bodyErr,
                   result, calls, log, db0, files0, first, stats, inserted, nameVars,
                   compileVars>>


\* the mutant calls insert directly, outside the helper's hook
insertReturns_direct(err) ==
    IF err = "nil" THEN LoopAt(idx + 1) ELSE BodyFails(err) /\ idx' = idx

\* Load, lines 61-63: insert runs as the body of whileInsertOnTable and
\* returns to it
insertReturns(err) ==
    /\ pc' = "hookExit"
    /\ bodyErr' = err
    /\ idx' = idx

Permute(items, order) == [k \in 1..Len(items) |-> items[order[k]]]

\* the mutant walks the sequence from its end
IndexOrder_descending(n) == [k \in 1..n |-> n + 1 - k]

\* the loop over a sequence, lines 149-150: the indices in ascending order
IndexOrder(n) == [k \in 1..n |-> k]

\* the mutant keeps the parsed rows in the fixtureFile and drops the bytes
Unmarshal_intoFile(files, i) == [files EXCEPT ![i].content = Content("slice", <<>>)]

\* yaml.Unmarshal(f.content, &rows), lines 139-140: the rows go to a local
\* of insert, the fixtureFile keeps its content
Unmarshal_intoLocal(files, i) == files

\* fixtureFile.insert up to its loops: yaml.Unmarshal and the switch on the
\* kind of the top level
insert_parse ==
    /\ pc = "parse"
    /\ fixturesFiles' = Unmarshal_intoLocal(fixturesFiles, idx)
    /\ LET c == fixturesFiles[idx].content
       IN CASE c.kind = "invalid" ->
                 /\ insertReturns("errYAML")
                 /\ UNCHANGED <<pending, result>>
            [] c.kind = "nil" ->
                 \* reflect.TypeOf(nil) is nil and t.Kind() dereferences it
                 /\ pc' = "panicked"
                 /\ result' = "panic"
                 /\ UNCHANGED <<pending, bodyErr, idx>>
            [] c.kind = "scalar" ->
                 /\ insertReturns("ErrFileIsNotSliceOrMap")
                 /\ UNCHANGED <<pending, result>>
            [] c.kind = "slice" ->
                 /\ pending' = Permute(c.items, IndexOrder(Len(c.items)))
                 /\ IF c.items = <<>>
                    THEN insertReturns("nil")
                    ELSE pc' = "record" /\ UNCHANGED <<bodyErr, idx>>
                 /\ result' = result
            [] c.kind = "map" ->
                 \* v.MapKeys() yields the keys in an unspecified order
                 /\ \E order \in Perms(Len(c.items)) : pending' = Permute(c.items, order)
                 /\ IF c.items = <<>>
                    THEN insertReturns("nil")
                    ELSE pc' = "record" /\ UNCHANGED <<bodyErr, idx>>
                 /\ result' = result
    /\ UNCHANGED <<skipDatabaseNameCheck, dbName, paramType, dbVars, txVars, integrity,
                   hook, calls, log, db0,
                   files0, first, stats, inserted, nameVars,
                   compileVars>>

\* the mutant goes on with the next record after an error
recordFails_goOn(err) ==
    /\ pending' = Tail(pending)
    /\ IF Tail(pending) = <<>>
       THEN insertReturns("nil")
       ELSE pc' = "record" /\ UNCHANGED <<bodyErr, idx>>

\* insert returns err from inside its loop
recordFails(err) ==
    /\ pending' = pending
    /\ insertReturns(err)

\* one turn of the loop of fixtureFile.insert: the cast of the record,
\* buildInsertSQL and tx.Exec of the INSERT, which may fail
insert_record ==
    /\ pc = "record"
    /\ pending # <<>>
    /\ LET t == TableOf(fixturesFiles[idx])
           rec == Head(pending)
       IN IF rec.kind # "map"
          THEN /\ recordFails("ErrWrongCastNotAMap")
               /\ UNCHANGED <<txDb, txSeq, log>>
          ELSE \E order \in Perms(Len(rec.kv)) :
                 LET stmt == buildInsertSQL(paramType, t, rec, order)
                 IN IF stmt.err # "nil"
                    THEN /\ recordFails(stmt.err)
                         /\ UNCHANGED <<txDb, txSeq, log>>
                    ELSE \E ok \in BOOLEAN :
                           LET r == DbInsert(txDb, txSeq, t, RowOf(stmt))
                           IN /\ log' = Append(log, [op |-> "INSERT", table |-> t,
                                                     file |-> idx, hook |-> hook,
                                                     ok |-> ok /\ r.ok])
                              /\ IF ok /\ r.ok
                                 THEN /\ txDb' = r.tables
                                      /\ txSeq' = r.seqs
                                      /\ pending' = Tail(pending)
                                      /\ IF Tail(pending) = <<>>
                                         THEN insertReturns("nil")
                                         ELSE pc' = "record" /\ UNCHANGED <<bodyErr, idx>>
                                 ELSE /\ UNCHANGED <<txDb, txSeq>>
                                      /\ recordFails("errInsert")
    /\ UNCHANGED <<cfgVars, dbVars, txOpen, integrity, hook, result, calls, db0,
                   files0, first, stats, inserted, nameVars,
                   compileVars>>

\* the post-insert action of the hook: the sequence of the table restarts
\* past the largest identifier in it
resetSequence(seqs, tables, t) == [seqs EXCEPT ![t] = MaxOf(Ids(tables[t])) + 1]

\* helper.whileInsertOnTable after its body returned, and lines 64-66 of Load
whileInsertOnTable_exit ==
    /\ pc = "hookExit"
    /\ hook' = None
    /\ IF bodyErr = "nil"
       THEN /\ txSeq' = resetSequence(txSeq, txDb, hook)
            /\ LoopAt(idx + 1)
       ELSE /\ txSeq' = txSeq
            /\ idx' = idx
            /\ BodyFails(bodyErr)
    /\ UNCHANGED <<cfgVars, dbVars, txOpen, txDb, integrity, pending, result, calls,
                   log, db0, files0, first, stats, inserted, nameVars,
                   compileVars>>

\* helper.disableReferentialIntegrity after its body returned: enforcement
\* is restored whatever the body returned
disableReferentialIntegrity_restore ==
    /\ pc = "restore"
    /\ integrity' = "enforced"
    /\ pc' = "finish"
    /\ UNCHANGED <<cfgVars, dbVars, txVars, idx, pending, hook, bodyErr, result,
                   calls, log, db0, files0, first, stats, inserted, nameVars,
                   compileVars>>

\* helper.disableReferentialIntegrity: commit when the body returned nil,
\* rollback otherwise; Load returns what the helper returns (line 70)
disableReferentialIntegrity_finish ==
    /\ pc = "finish"
    /\ txOpen' = FALSE
    /\ IF bodyErr = "nil"
       THEN /\ db' = txDb
            /\ seq' = txSeq
            /\ stats' = [stats EXCEPT !.commits = @ + 1]
       ELSE /\ UNCHANGED dbVars
            /\ stats' = [stats EXCEPT !.rollbacks = @ + 1]
    /\ txDb' = (IF bodyErr = "nil" THEN txDb ELSE db)
    /\ txSeq' = (IF bodyErr = "nil" THEN txSeq ELSE seq)
    /\ Returned(bodyErr, calls, IF bodyErr = "nil" THEN txDb ELSE db)
    /\ UNCHANGED <<cfgVars, integrity, idx, pending, hook, bodyErr, calls, log,
                   db0, files0, inserted, nameVars,
                   compileVars>>

\* an ordinary INSERT by the caller after Load returned, as InserAfterLoad
\* does: the row names no id, so the sequence of the table assigns it
OrdinaryInsert(t) ==
    /\ pc = "returned"
    /\ Len(inserted) < MaxInserts
    /\ LET r == DbInsert(db, seq, t, [c \in {"title"} |-> IntVal(5)])
       IN /\ db' = r.tables
          /\ seq' = r.seqs
          /\ txDb' = r.tables
          /\ txSeq' = r.seqs
          /\ inserted' = Append(inserted, [table |-> t, ok |-> r.ok])
    /\ UNCHANGED <<cfgVars, txOpen, integrity, pc, idx, pending, hook, bodyErr,
                   result, calls, log, db0, files0, first, stats, nameVars,
                   compileVars>>

Next ==
    \/ Load
    \/ disableReferentialIntegrity_begin
    \/ delete
    \/ whileInsertOnTable_enter
    \/ insert_parse
    \/ insert_record
    \/ whileInsertOnTable_exit
    \/ disableReferentialIntegrity_restore
    \/ disableReferentialIntegrity_finish
    \/ \E t \in DOMAIN db : OrdinaryInsert(t)

Spec == Init /\ [][Next]_vars


----------------------------------------------------------------------------
(* The safety guard over many database names.                              *)

GuardChars == {"t", "e", "s", "T", "_", CyrTe}

AcceptedExamples ==
    {<<"d","b","_","t","e","s","t">>,
     <<"d","b","T","E","S","T">>,
     <<"t","e","s","t","d","b">>,
     <<"p","r","o","d","u","c","t","i","o","n","T","e","s","t","C","o","p","y">>}

RejectedExamples ==
    {<<"p","r","o","d","u","c","t","i","o","n">>,
     <<"t","_","e","_","s","_","t">>,
     <<CyrTe, "E", "S", CyrTe>>}

GuardNames ==
    SeqsUpTo(GuardChars, MaxDbNameLen) \cup AcceptedExamples \cup RejectedExamples

InitGuard ==
    /\ fixturesFiles = <<FixtureFile(<<"p", ".", "y">>, Content("slice", <<m1>>))>>
    /\ dbName \in GuardNames
    /\ db \in InitialDbs
    /\ fname = <<>>
    /\ paramType = "dollar"
    /\ crecord = None
    /\ corder = <<>>
    /\ InitIdle

SpecGuard == InitGuard /\ [][Next]_vars

----------------------------------------------------------------------------
(* fileNameWithoutExtension over many file names.                          *)

NameChars == {"p", "y", "."}

InitName ==
    /\ fixturesFiles = <<>>
    /\ dbName = TestDbName
    /\ db = [t \in Tables |-> {}]
    /\ fname \in SeqsUpTo(NameChars, MaxNameLen)
    /\ paramType = "dollar"
    /\ crecord = None
    /\ corder = <<>>
    /\ InitIdle

\* a fixtureFile named fname is asked for its table name
StripExtension ==
    /\ pc = "idle"
    /\ pc' = "named"
    /\ tname' = fileNameWithoutExtension(fname)
    /\ UNCHANGED <<cfgVars, dbVars, txVars, integrity, idx, pending, hook, bodyErr,
                   result, calls, log, db0, files0, first, stats, inserted, fname,
                   compileVars>>

NextName == StripExtension

SpecName == InitName /\ [][NextName]_vars


----------------------------------------------------------------------------
(* Load with the process-wide toggle of the safety guard.                  *)

\* SkipDatabaseNameCheck(value), as TestMain calls it; it may be called at
\* any time, Load reads the toggle once, when it is called
SkipDatabaseNameCheck(value) ==
    /\ skipDatabaseNameCheck' = value
    /\ UNCHANGED <<fixturesFiles, dbName, paramType, dbVars, txVars, integrity, pc,
                   idx, pending, hook, bodyErr, result, calls, log, db0, files0,
                   first, stats, inserted, nameVars, compileVars>>

InitToggle ==
    /\ fixturesFiles = <<FixtureFile(<<"p", ".", "y">>, Content("slice", <<m1>>))>>
    /\ dbName \in {TestDbName, ProdDbName}
    /\ db \in InitialDbs
    /\ fname = <<>>
    /\ paramType = "dollar"
    /\ crecord = None
    /\ corder = <<>>
    /\ InitIdle

NextToggle ==
    \/ Next
    \/ \E value \in BOOLEAN : SkipDatabaseNameCheck(value)

SpecToggle == InitToggle /\ [][NextToggle]_vars


----------------------------------------------------------------------------
(* The insert step over one fixture whose records may hold nested values.  *)

\* a value that is itself a mapping
MapVal == [t |-> "map", n |-> 0]

\* a record that is a mapping, but not a flat one
nested == MapRecord(<<Entry("id", IntVal(1)), Entry("title", MapVal)>>)

InsertRecords == Records \cup {nested}

InitInsert ==
    /\ fixturesFiles \in
          {<<FixtureFile(<<"p", ".", "y">>, Content(k, items))>> :
              k \in {"slice", "map"}, items \in SeqsUpTo(InsertRecords, MaxRecords)}
    /\ dbName = TestDbName
    /\ db \in InitialDbs
    /\ fname = <<>>
    /\ paramType = "dollar"
    /\ crecord = None
    /\ corder = <<>>
    /\ InitIdle

SpecInsert == InitInsert /\ [][Next]_vars


----------------------------------------------------------------------------
(* buildInsertSQL over many records, iteration orders and placeholder      *)
(* styles.                                                                 *)

MaxKeys == 2

ColumnNames == {"id", "title", "at"}

DateVal(kind) == [t |-> kind, n |-> 0]

CompileValues == {IntVal(1), DateVal("date"), DateVal("time"), DateVal("datetime")}

CompileEntries ==
    {Entry(k, v) : k \in ColumnNames, v \in CompileValues}
    \cup {IntKeyEntry("7", IntVal(2))}

\* records of at most MaxKeys pairs; a map holds a key once
CompileRecords ==
    {MapRecord(kv) : kv \in
        {q \in SeqsUpTo(CompileEntries, MaxKeys) :
            \A i, j \in 1..Len(q) : q[i].key = q[j].key => i = j}}

InitCompile ==
    /\ fixturesFiles = <<FixtureFile(<<"p", ".", "y">>, Content("slice", <<>>))>>
    /\ dbName = TestDbName
    /\ db = [t \in Tables |-> {}]
    /\ fname = <<>>
    /\ paramType \in ParamTypes
    /\ crecord \in CompileRecords
    /\ corder \in Perms(Len(crecord.kv))
    /\ InitIdle

\* the fixtureFile compiles crecord, range yielding its pairs in corder
Compile ==
    /\ pc = "idle"
    /\ pc' = "compiled"
    /\ compiled' = buildInsertSQL(paramType, TableOf(fixturesFiles[1]), crecord, corder)
    /\ UNCHANGED <<cfgVars, dbVars, txVars, integrity, idx, pending, hook, bodyErr,
                   result, calls, log, db0, files0, first, stats, inserted, nameVars,
                   crecord, corder>>

NextCompile == Compile

SpecCompile == InitCompile /\ [][NextCompile]_vars


----------------------------------------------------------------------------
(* Properties.                                                             *)

Done == pc = "returned"
Succeeded == Done /\ result = "nil"
Ended == pc \in {"returned", "panicked"}
InBody == pc \in {"delete", "hook", "parse", "record", "hookExit"}

\* the row a record of a fixture defines: its values by column name
RecordRow(record) ==
    [c \in {record.kv[i].key : i \in 1..Len(record.kv)} |->
        record.kv[CHOOSE i \in 1..Len(record.kv) : record.kv[i].key = c].val]

FileIdx == 1..Len(fixturesFiles)
Targeted == {TableOf(fixturesFiles[i]) : i \in FileIdx}
FilesFor(t) == {i \in FileIdx : TableOf(fixturesFiles[i]) = t}
ItemsOf(i) == fixturesFiles[i].content.items
FixtureRows(i) == {RecordRow(ItemsOf(i)[k]) : k \in 1..Len(ItemsOf(i))}

HasInvalidRecord ==
    \E i \in FileIdx : \E k \in 1..Len(ItemsOf(i)) : ItemsOf(i)[k] \in InvalidRecords

\* C1: after a Load that returned no error, every table that one fixture of
\* the set targets holds exactly the rows of that fixture, as many as the
\* fixture has records, whatever the table held before the call.
C1_LoadReplaces ==
    (Succeeded /\ inserted = <<>>) =>
        \A t \in Targeted : \A i \in FilesFor(t) :
            FilesFor(t) = {i} =>
                /\ db[t] = FixtureRows(i)
                /\ Cardinality(db[t]) = Len(ItemsOf(i))

C1_Witness ==
    /\ Succeeded
    /\ inserted = <<>>
    /\ \E t \in Targeted : \E i \in FilesFor(t) :
          /\ FilesFor(t) = {i}
          /\ db0[t] = {OldRow}
          /\ Len(ItemsOf(i)) = 2
          /\ db[t] = FixtureRows(i)

\* C2 (as claimed): whenever a Load of a fixture set holding an invalid
\* record has ended, it returned an error and every table is as it was
\* before the call.
C2_InvalidRecordFails ==
    (Ended /\ HasInvalidRecord /\ inserted = <<>>) =>
        /\ Done
        /\ result # "nil"
        /\ db = db0

\* C3: with the check enabled and a database name that does not match, Load
\* returns errNotTestDatabase, and it has begun no transaction, suspended
\* nothing, executed no statement and changed no table.
C3_GuardFirst ==
    /\ (calls > 0 /\ ~skipDatabaseNameCheck /\ ~dbnameRegexp_MatchString(dbName)) =>
          /\ Done
          /\ result = "errNotTestDatabase"
    /\ (Done /\ result = "errNotTestDatabase" /\ inserted = <<>>) =>
          /\ stats = NoStats
          /\ log = <<>>
          /\ ~txOpen
          /\ integrity = "enforced"
          /\ db = db0
          /\ seq = SeqFor(db0)

C3_Witness ==
    /\ Done
    /\ result = "errNotTestDatabase"
    /\ fixturesFiles # <<>>
    /\ \E t \in Targeted : db[t] # {}

\* C4: the statements of a Load run inside one transaction, whose work is
\* invisible while it is open; the transaction is committed exactly when
\* Load returns nil and rolled back when Load returns an error of the body,
\* and after a Load that returned an error every table is as before the call.
C4_OneTransaction ==
    /\ stats.begins <= 1
    /\ InBody => (txOpen /\ stats.begins = 1)
    /\ log # <<>> => stats.begins = 1
    /\ txOpen => db = db0
    /\ Done =>
          /\ ~txOpen
          /\ stats.commits = (IF result = "nil" THEN 1 ELSE 0)
          /\ stats.rollbacks = (IF result # "nil" THEN stats.begins ELSE 0)
          /\ (result # "nil" /\ inserted = <<>>) => db = db0

C4_Witness ==
    /\ Done
    /\ result = "errInsert"
    /\ stats.rollbacks = 1
    /\ \E k \in 1..Len(log) : log[k].op = "DELETE" /\ log[k].ok
    /\ \E k \in 1..Len(log) : log[k].op = "INSERT" /\ log[k].ok
    /\ \E t \in Targeted : db[t] = {OldRow}

\* C5: enforcement is suspended at every step of the delete+insert body and
\* is back when Load has returned, whether the body returned nil or an error.
C5_IntegrityBracket ==
    /\ InBody => integrity = "suspended"
    /\ Done => integrity = "enforced"

C5_Witness ==
    /\ Done
    /\ stats.begins = 1
    /\ result \in {"errDelete", "errInsert", "ErrKeyIsNotString"}
    /\ integrity = "enforced"

EndedAtNonContainer ==
    /\ Ended
    /\ idx \in FileIdx
    /\ fixturesFiles[idx].content.kind \in {"scalar", "nil"}
    /\ log # <<>>
    /\ log[Len(log)] = [op |-> "DELETE", table |-> TableOf(fixturesFiles[idx]),
                        file |-> idx, hook |-> None, ok |-> TRUE]

\* C7 (as claimed): a Load that reaches a fixture whose top level is a plain
\* scalar, or empty or null, returns ErrFileIsNotSliceOrMap and leaves every
\* table as it was.
C7_NotSliceOrMap ==
    (EndedAtNonContainer /\ inserted = <<>>) =>
        /\ Done
        /\ result = "ErrFileIsNotSliceOrMap"
        /\ db = db0

\* the name holds the letters t, e, s, t next to each other, each in either case
ContainsTest(name) ==
    \E i \in 1..Len(name) :
        /\ i + 3 <= Len(name)
        /\ name[i] \in {"t", "T"}
        /\ name[i + 1] \in {"e", "E"}
        /\ name[i + 2] \in {"s", "S"}
        /\ name[i + 3] \in {"t", "T"}

\* C8: with the check enabled, Load refuses the database exactly when its
\* name does not hold t-e-s-t contiguously in some letter case; the four
\* accepted and three rejected names of TestDetectTestDatabase are decided so.
C8_GuardAcceptsTestNames ==
    (calls > 0 /\ ~skipDatabaseNameCheck) =>
        /\ (result = "errNotTestDatabase") <=> ~ContainsTest(dbName)
        /\ dbName \in AcceptedExamples => result # "errNotTestDatabase"
        /\ dbName \in RejectedExamples => result = "errNotTestDatabase"

C8_Witness ==
    /\ Done
    /\ dbName = <<CyrTe, "E", "S", CyrTe>>
    /\ result = "errNotTestDatabase"

C8_WitnessAccepted ==
    /\ Done
    /\ dbName \in AcceptedExamples
    /\ result = "nil"

\* the name without its final dot-suffix
StripFinalSuffix(name) ==
    LET dots == {i \in 1..Len(name) : name[i] = "."}
    IN IF dots = {} THEN name
       ELSE SubSeq(name, 1, (CHOOSE i \in dots : \A j \in dots : j <= i) - 1)

\* C9 (as claimed): the table name of a file is its name without the final
\* dot-suffix, nothing else changed.
C9_TableNameStripsExtension ==
    pc = "named" => tname = StripFinalSuffix(fname)

\* C10: after a Load that returned nil the sequence of every targeted table
\* is above every identifier in the table, and an ordinary INSERT that lets
\* the sequence assign the identifier succeeds.
C10_SequenceAboveLoaded ==
    Succeeded =>
        /\ \A t \in Targeted : seq[t] > MaxOf(Ids(db[t]))
        /\ \A k \in 1..Len(inserted) :
              inserted[k].table \in Targeted => inserted[k].ok

C10_Witness ==
    /\ Succeeded
    /\ db0 = [t \in Tables |-> {}]
    /\ \E k \in 1..Len(inserted) :
          /\ inserted[k].ok
          /\ {1, 2, 3} \subseteq Ids(db[inserted[k].table])

\* the entries of the statement log that belong to fixture i
EntriesOf(i) == {k \in 1..Len(log) : log[k].file = i}

\* C11: the statements a Load has executed when it ends follow the order of
\* the fixture set: the first statement of every fixture is the one DELETE
\* of its table, run outside any hook; its INSERTs follow, each run on that
\* table inside the hook opened for that table; no statement of an earlier
\* fixture follows one of a later fixture, no fixture is passed over, and a
\* table is deleted at most as often as fixtures of the set name it.
C11_SinglePassInOrder ==
    (Ended /\ inserted = <<>> /\ log # <<>>) =>
        LET tableOf == [i \in FileIdx |-> TableOf(fixturesFiles[i])]
            entries == [i \in FileIdx |-> EntriesOf(i)]
        IN /\ \A j, k \in 1..Len(log) : j < k => log[j].file <= log[k].file
           /\ \A k \in 1..Len(log) :
                 /\ log[k].file \in FileIdx
                 /\ log[k].table = tableOf[log[k].file]
                 /\ \A i \in 1..log[k].file : entries[i] # {}
                 /\ (log[k].op = "DELETE") <=> (\A j \in entries[log[k].file] : k <= j)
                 /\ log[k].op = "DELETE" => log[k].hook = None
                 /\ log[k].op = "INSERT" => log[k].hook = log[k].table
           /\ \A t \in Tables :
                 Cardinality({k \in 1..Len(log) : log[k].op = "DELETE" /\ log[k].table = t})
                    <= Cardinality({i \in FileIdx : tableOf[i] = t})
           /\ Succeeded =>
                 \A i \in FileIdx : Cardinality(entries[i]) = 1 + Len(ItemsOf(i))

C11_Witness ==
    /\ Succeeded
    /\ Len(fixturesFiles) = 2
    /\ TableOf(fixturesFiles[1]) = TableOf(fixturesFiles[2])
    /\ Len(log) = 4
    /\ log[2].op = "INSERT" /\ log[2].file = 1
    /\ log[3].op = "DELETE" /\ log[3].file = 2
    /\ log[4].op = "INSERT" /\ log[4].file = 2

\* the INSERTs logged for fixture i
InsertsOf(i) == {k \in EntriesOf(i) : log[k].op = "INSERT"}

\* the error of a failed statement
ErrorOf(entry) == IF entry.op = "DELETE" THEN "errDelete" ELSE "errInsert"

\* a step of the current Load has failed
StepFailed == bodyErr # "nil"

\* C12: once a DELETE, a parse, a compilation or an INSERT of a Load has
\* failed, the Load is past every step that executes a statement: nothing
\* is logged after a failed statement, the fixtures after the failing one
\* have no statement, the failing fixture has INSERTs only for the records
\* before the failing one, and the Load returns the error of that step.
C12_FirstErrorStops ==
    /\ \A k \in 1..Len(log) : ~log[k].ok =>
          /\ k = Len(log)
          /\ bodyErr = ErrorOf(log[k])
    /\ StepFailed =>
          /\ pc \in {"hookExit", "restore", "finish", "returned"}
          /\ idx \in FileIdx
          /\ \A k \in 1..Len(log) : log[k].file <= idx
          /\ bodyErr \in {"errDelete", "errInsert"} =>
                (log # <<>> /\ ~log[Len(log)].ok /\ log[Len(log)].file = idx)
          /\ bodyErr = "errDelete" => InsertsOf(idx) = {}
          /\ bodyErr \in {"errYAML", "ErrFileIsNotSliceOrMap"} => InsertsOf(idx) = {}
          /\ bodyErr \in {"ErrKeyIsNotString", "ErrWrongCastNotAMap"} =>
                /\ pending # <<>>
                /\ Cardinality(InsertsOf(idx)) = Len(ItemsOf(idx)) - Len(pending)
                /\ \A k \in InsertsOf(idx) : log[k].ok
          /\ bodyErr = "errInsert" =>
                /\ pending # <<>>
                /\ Cardinality(InsertsOf(idx)) = Len(ItemsOf(idx)) - Len(pending) + 1
          /\ Done => result = bodyErr
    /\ (Done /\ result = "nil") => \A k \in 1..Len(log) : log[k].ok

C12_Witness ==
    /\ Done
    /\ result = "ErrKeyIsNotString"
    /\ Len(fixturesFiles) = 2
    /\ idx = 1
    /\ Len(ItemsOf(1)) = 2
    /\ Len(log) = 2
    /\ log[2].op = "INSERT" /\ log[2].ok

C12_WitnessStatement ==
    /\ Done
    /\ result = "errInsert"
    /\ Len(fixturesFiles) = 2
    /\ idx = 1
    /\ ~log[Len(log)].ok

\* the last n elements of a sequence
Suffix(items, n) == SubSeq(items, Len(items) - n + 1, Len(items))

\* the insert step of fixture idx is in or past its loop over the records
InRecords ==
    /\ pc \in {"record", "hookExit"}
    /\ idx \in FileIdx
    /\ fixturesFiles[idx].content.kind \in {"slice", "map"}

\* the records of fixture idx whose INSERT was executed without error
DoneRecords == Len(ItemsOf(idx)) - Len(pending)

\* one INSERT was executed for every record before the pending ones, none
\* for the others but the failed one, before the next record is compiled
OneInsertPerRecord ==
    /\ Len(pending) <= Len(ItemsOf(idx))
    /\ Cardinality({k \in InsertsOf(idx) : log[k].ok}) = DoneRecords
    /\ Cardinality(InsertsOf(idx)) =
          DoneRecords + (IF bodyErr = "errInsert" THEN 1 ELSE 0)
    /\ (pc = "hookExit" /\ bodyErr = "nil") => pending = <<>>

\* C13 (as claimed): in the insert step of every fixture, one INSERT has
\* been executed for every record before the pending ones, and the pending
\* records are the rest of the file in file order.
C13_InFileOrder ==
    InRecords =>
        /\ OneInsertPerRecord
        /\ pending = Suffix(ItemsOf(idx), Len(pending))

\* C13 (amended): the same where the top level of the file is a sequence;
\* where it is a mapping, the records are taken once each in some order,
\* which need not be the order of the file.
C13_InFileOrderOfSequence ==
    InRecords =>
        /\ OneInsertPerRecord
        /\ fixturesFiles[idx].content.kind = "slice" =>
              /\ pending = Suffix(ItemsOf(idx), Len(pending))
              /\ txDb[TableOf(fixturesFiles[idx])] =
                    {RecordRow(ItemsOf(idx)[k]) : k \in 1..DoneRecords}
        /\ fixturesFiles[idx].content.kind = "map" =>
              \E order \in Perms(Len(ItemsOf(idx))) :
                  pending = Suffix(Permute(ItemsOf(idx), order), Len(pending))

C13_Witness ==
    /\ pc = "record"
    /\ fixturesFiles[idx].content.kind = "slice"
    /\ ItemsOf(idx) = <<m2, m1>>
    /\ pending = <<m1>>
    /\ txDb[TableOf(fixturesFiles[idx])] = {RecordRow(m2)}
    /\ log[Len(log)].op = "INSERT" /\ log[Len(log)].ok

\* every key of the record is a string
OnlyStringKeys(rec) == \A i \in 1..Len(rec.kv) : rec.kv[i].str

\* the value the record holds for a column
ValueOf(rec, column) ==
    rec.kv[CHOOSE i \in 1..Len(rec.kv) : rec.kv[i].key = column].val

\* the statement has one column, one placeholder and one value per key of
\* the record, and the i-th value is the record's value for the i-th column
AlignedByPosition ==
    /\ compiled.err = "nil"
    /\ compiled.table = TableOf(fixturesFiles[1])
    /\ Len(compiled.columns) = Len(crecord.kv)
    /\ Len(compiled.placeholders) = Len(crecord.kv)
    /\ Len(compiled.values) = Len(crecord.kv)
    /\ {compiled.columns[i] : i \in 1..Len(compiled.columns)}
          = {crecord.kv[i].key : i \in 1..Len(crecord.kv)}
    /\ \A i \in 1..Len(compiled.columns) :
          compiled.values[i] = ValueOf(crecord, compiled.columns[i])

\* C14 (as claimed): the statement compiled from a record with only string
\* keys is aligned by position, and its i-th placeholder carries ordinal i.
C14_PlaceholdersByOrdinal ==
    (pc = "compiled" /\ OnlyStringKeys(crecord)) =>
        /\ AlignedByPosition
        /\ \A i \in 1..Len(compiled.placeholders) : compiled.placeholders[i].ord = i

\* C14 (amended): the same, the ordinal being carried in the dollar and the
\* colon style; in the question style every placeholder is the bare mark,
\* which carries no ordinal, and the i-th mark stands for the i-th value.
C14_PlaceholdersByOrdinalOrPosition ==
    (pc = "compiled" /\ OnlyStringKeys(crecord)) =>
        /\ AlignedByPosition
        /\ \A i \in 1..Len(compiled.placeholders) :
              LET ph == compiled.placeholders[i]
              IN CASE paramType = "dollar" -> ph = [mark |-> "$", ord |-> i, cast |-> None]
                   [] paramType = "colon" -> ph.mark = ":" /\ ph.ord = i
                   [] OTHER -> ph = [mark |-> "?", ord |-> 0, cast |-> None]

C14_Witness ==
    /\ pc = "compiled"
    /\ paramType = "colon"
    /\ crecord = MapRecord(<<Entry("id", IntVal(1)), Entry("at", DateVal("date"))>>)
    /\ compiled.columns = <<"at", "id">>
    /\ compiled.values = <<DateVal("date"), IntVal(1)>>
    /\ compiled.placeholders[1] = [mark |-> ":", ord |-> 1, cast |-> "YYYY-MM-DD"]
    /\ compiled.placeholders[2] = [mark |-> ":", ord |-> 2, cast |-> None]

\* the record is a mapping of keys to scalar values
Flat(rec) ==
    /\ rec.kind = "map"
    /\ \A i \in 1..Len(rec.kv) : rec.kv[i].val.t # "map"

\* a record the insert step has to reject
Rejected(rec, flatOnly) ==
    IF flatOnly THEN ~Flat(rec) \/ ~OnlyStringKeys(rec)
    ELSE rec.kind # "map" \/ ~OnlyStringKeys(rec)

\* how many of the records of a sequence have to be rejected
RejectedIn(items, flatOnly) ==
    Cardinality({k \in 1..Len(items) : Rejected(items[k], flatOnly)})

\* the insert step never gets past a record it has to reject: it ends at
\* the first one it takes, with ErrKeyIsNotString for a mapping with a key
\* that is not a string and with ErrWrongCastNotAMap otherwise, and the
\* INSERTs executed are those of the records before it, all successful
RejectsRecords(flatOnly) ==
    InRecords =>
        /\ RejectedIn(pending, flatOnly) = RejectedIn(ItemsOf(idx), flatOnly)
        /\ (pc = "hookExit" /\ pending # <<>> /\ Rejected(Head(pending), flatOnly)) =>
              /\ bodyErr = (IF Head(pending).kind = "map" /\ ~OnlyStringKeys(Head(pending))
                            THEN "ErrKeyIsNotString" ELSE "ErrWrongCastNotAMap")
              /\ Cardinality(InsertsOf(idx)) = DoneRecords
              /\ \A k \in InsertsOf(idx) : log[k].ok
        /\ bodyErr = "ErrWrongCastNotAMap" =>
              (pending # <<>> /\ Head(pending).kind # "map")
        /\ bodyErr = "ErrKeyIsNotString" =>
              (pending # <<>> /\ Head(pending).kind = "map"
                 /\ ~OnlyStringKeys(Head(pending)))

C15_WitnessNotAMap ==
    /\ pc = "hookExit"
    /\ ItemsOf(idx) = <<m2, ScalarRecord>>
    /\ pending = <<ScalarRecord>>
    /\ bodyErr = "ErrWrongCastNotAMap"
    /\ Cardinality(InsertsOf(idx)) = 1

\* a step that is a call of Load
LoadCalled == calls' = calls + 1

\* C16: the check is enabled when the program starts, and every Load called
\* while the toggle has it disabled goes on to the helper and its body
\* whatever the name of the database is: it does not return
\* errNotTestDatabase.
C16_ToggleSkipsGuard ==
    /\ ~skipDatabaseNameCheck
    /\ [][(LoadCalled /\ skipDatabaseNameCheck) =>
            (pc' = "begin" /\ result' # "errNotTestDatabase")]_vars
    /\ [][(LoadCalled /\ ~skipDatabaseNameCheck /\ ~dbnameRegexp_MatchString(dbName)) =>
            (pc' = "returned" /\ result' = "errNotTestDatabase")]_vars

C16_Witness ==
    /\ Succeeded
    /\ skipDatabaseNameCheck
    /\ dbName = ProdDbName
    /\ db0 = [t \in Tables |-> {OldRow}]
    /\ \E t \in Targeted : db[t] = {RecordRow(m1)}

\* C17: the fixture set of the Context is at every step of every Load, and
\* after it, what it was when the Load was called and when the Context was
\* built: the same files in the same order with the same names and content.
C17_FixtureSetUnchanged ==
    /\ fixturesFiles = files0
    /\ calls > 0 => Len(fixturesFiles) = Len(files0)
    /\ \A i \in 1..Len(files0) :
          /\ fixturesFiles[i].fileName = files0[i].fileName
          /\ fixturesFiles[i].content = files0[i].content

C17_Witness ==
    /\ Done
    /\ calls = 2
    /\ ~first.ok
    /\ result = "nil"
    /\ Len(fixturesFiles) = 2
    /\ Len(log) = 4
    /\ fixturesFiles = files0

\* the last fixture of the set that names table t
LastFor(t) == CHOOSE i \in FilesFor(t) : \A j \in FilesFor(t) : j <= i

\* two fixtures of the set name one table
SharedTable == \E t \in Targeted : Cardinality(FilesFor(t)) > 1

\* every file of the set is a sequence or a mapping of valid records
WellFormed ==
    \A i \in FileIdx :
        /\ fixturesFiles[i].content.kind \in {"slice", "map"}
        /\ \A k \in 1..Len(ItemsOf(i)) : ItemsOf(i)[k] \in ValidRecords

\* C18: a fixture set in which two fixtures name one table is loaded like
\* any other: when a fixture inserts, its table holds no row of an earlier
\* fixture; a Load of well-formed files all of whose statements succeeded
\* returns nil; and after a Load that returned nil every targeted table
\* holds exactly the rows of the last fixture of the set that names it.
C18_LastFixtureWins ==
    /\ (pc = "record" /\ idx \in FileIdx) =>
          txDb[TableOf(fixturesFiles[idx])] \subseteq FixtureRows(idx)
    /\ (Done /\ stats.begins = 1 /\ WellFormed /\ \A k \in 1..Len(log) : log[k].ok) =>
          result = "nil"
    /\ (Succeeded /\ inserted = <<>>) =>
          \A t \in Targeted :
              /\ db[t] = FixtureRows(LastFor(t))
              /\ Cardinality(db[t]) = Len(ItemsOf(LastFor(t)))

C18_Witness ==
    /\ Succeeded
    /\ inserted = <<>>
    /\ SharedTable
    /\ Len(fixturesFiles) = 2
    /\ ItemsOf(1) = <<m1>>
    /\ ItemsOf(2) = <<m2>>
    /\ db[TableOf(fixturesFiles[2])] = {RecordRow(m2)}


====
